---- MODULE Spec2Model ----
(***************************************************************************)
(* Him-Learning backend: the request handlers of routes/auth.js,           *)
(* routes/admin.js and the blog router, over the two document stores       *)
(* (User, Blog).  Every handler is a process that runs from one await to   *)
(* the next: each store call (findById, findOne, save, deleteOne,          *)
(* deleteMany) is one atomic step, and the steps of different requests     *)
(* interleave freely.                                                      *)
(*                                                                         *)
(* Document.save() of the ODM is modelled by what it does: a new document  *)
(* is inserted; an existing document is updated with the paths modified    *)
(* in memory only ($set of a changed scalar, $push / $pull of an array     *)
(* that was pushed to / pulled from, $set of a whole array that was        *)
(* spliced, the last one guarded by the version key __v); an update that   *)
(* matches no document is an error, which the handler's catch turns into   *)
(* a 500 answer.                                                           *)
(***************************************************************************)
EXTENDS Integers, Sequences, FiniteSets, TLC

\* ------------------------------------------------------------------ bounds
MaxUsers    == 4   \* user ids ever handed out
MaxBlogs    == 2   \* blog ids ever handed out
MaxComments == 2   \* comment ids ever handed out
MaxReqs     == 2   \* requests handled in one behaviour, all may overlap

UserIds    == 1..MaxUsers
BlogIds    == 1..MaxBlogs
CommentIds == 1..MaxComments
Slots      == 1..MaxReqs

\* ------------------------------------------------------ program constants
ADMIN_EMAIL    == "admin@x"
ADMIN_PASSWORD == "adminpw"

Ok             == 200
Created        == 201
BadRequest     == 400
Unauthorized   == 401
NotAuthorized  == 403
NotFound       == 404
ServerError    == 500

\* ------------------------------------------------------------ input sets
\* request bodies; "" stands for a field the body does not carry
TitleInputs    == {"", "t2"}
BlogEdits      == { [title |-> "", description |-> ""],
                    [title |-> "t2", description |-> ""],
                    [title |-> "t2", description |-> "d2"] }
SignupBodies   == { [email |-> "ann@x", role |-> ""],
                    [email |-> "new@x", role |-> "admin"],
                    [email |-> ADMIN_EMAIL, role |-> ""] }
Credentials    == { [email |-> ADMIN_EMAIL, password |-> ADMIN_PASSWORD],
                    [email |-> ADMIN_EMAIL, password |-> "pw"],
                    [email |-> "ann@x", password |-> "pw"],
                    [email |-> "ann@x", password |-> ADMIN_PASSWORD] }
ProfileEdits   == { [name |-> "", email |-> ""],
                    [name |-> "zed", email |-> ""],
                    [name |-> "", email |-> "new@x"],
                    [name |-> "zed", email |-> "bob@x"] }
PasswordEdits  == { [password |-> "pw", newPassword |-> "pw2"],
                    [password |-> "pw2", newPassword |-> "pw"],
                    [password |-> "pw", newPassword |-> ""] }
UserEdits      == { [name |-> "", email |-> "", role |-> "admin"],
                    [name |-> "", email |-> "", role |-> "user"],
                    [name |-> "zed", email |-> "new@x", role |-> "root"],
                    [name |-> "zed", email |-> "bob@x", role |-> ""],
                    [name |-> "", email |-> "new@x", role |-> "admin"] }
\* a request body's content: absent, or a string, written as a sequence of
\* characters so that trimming is computed
ContentInputs  ==
    { [has |-> FALSE, text |-> << >>],
      [has |-> TRUE,  text |-> << >>],
      [has |-> TRUE,  text |-> <<" ">>],
      [has |-> TRUE,  text |-> <<" ", "h">>] }

\* ------------------------------------------------------------- helpers
Range(s) == { s[i] : i \in 1..Len(s) }

\* Array.prototype.indexOf, 1-based; 0 stands for JavaScript's -1
IndexOf(s, x) ==
    IF x \in Range(s) THEN CHOOSE i \in 1..Len(s) :
                              s[i] = x /\ \A j \in 1..(i-1) : s[j] # x
    ELSE 0

\* Array.prototype.splice(i, 1)
Splice(s, i) == [ j \in 1..(Len(s)-1) |-> IF j < i THEN s[j] ELSE s[j+1] ]

\* MongooseArray.pull(_id) / $pull: the subdocuments whose _id is not cid
RECURSIVE PullId(_, _)
PullId(cs, cid) ==
    IF cs = << >> THEN << >>
    ELSE IF Head(cs).id = cid THEN PullId(Tail(cs), cid)
         ELSE <<Head(cs)>> \o PullId(Tail(cs), cid)

RECURSIVE TrimLeft(_)
TrimLeft(s) == IF s # << >> /\ Head(s) = " " THEN TrimLeft(Tail(s)) ELSE s

RECURSIVE TrimRight(_)
TrimRight(s) ==
    IF s # << >> /\ s[Len(s)] = " " THEN TrimRight(SubSeq(s, 1, Len(s)-1)) ELSE s

\* the schema's "trim: true" setter (String.prototype.trim)
Trim(s) == TrimRight(TrimLeft(s))

\* JavaScript's !content for a body field that is absent or a string
Falsy(c) == ~c.has \/ c.text = << >>

\* ---------------------------------------------------------------- state
VARIABLES
    users,     \* the User collection: _id -> document
    blogs,     \* the Blog collection: _id -> document
    nextUid,   \* the next fresh user _id
    nextBid,   \* the next fresh blog _id
    nextCid,   \* the next fresh comment _id
    reqs,      \* per request: its body, its place in the handler and the
               \* handler's local variables; kept once answered
    serial     \* the clients send a request only once the one before is
               \* answered (TRUE), or whenever they like (FALSE)

vars == <<users, blogs, nextUid, nextBid, nextCid, reqs, serial>>
store == <<users, blogs, nextUid, nextBid, nextCid, serial>>

NoActor == [id |-> 0, name |-> "", role |-> ""]
NoUserDoc == [name |-> "", email |-> "", password |-> << >>, role |-> ""]
NoBlogDoc == [title |-> "", description |-> "", author |-> 0, authorName |-> "",
              likes |-> << >>, comments |-> << >>, v |-> 0]
NoContent == [has |-> FALSE, text |-> << >>]

\* a request that has not arrived
IdleReq ==
    [kind |-> "none", pc |-> "idle", status |-> 0, actor |-> NoActor,
     id |-> 0, cid |-> 0, title |-> "", description |-> "", name |-> "",
     email |-> "", role |-> "", password |-> "", newPassword |-> "",
     content |-> NoContent, user |-> NoUserDoc, blog |-> NoBlogDoc, op |-> "none"]

\* request r has not arrived yet; requests arrive in the order of their
\* numbers
Free(r) ==
    /\ reqs[r].pc = "idle"
    /\ \A q \in 1..(r-1) : reqs[q].pc # "idle"
    /\ serial => \A q \in 1..(r-1) : reqs[q].pc = "done"

\* the handler answers: res.status(code).json(...)
Respond(r, code) ==
    reqs' = [reqs EXCEPT ![r].pc = "done", ![r].status = code]

\* ------------------------------------------------------------ middleware
\* middleware/auth.js `auth`: the token's user id is looked up; the user
\* document found becomes req.user
Resolve(u) ==
    IF u \in DOMAIN users
    THEN [id |-> u, name |-> users[u].name, role |-> users[u].role]
    ELSE NoActor

\* A request arrives with a token for user u and the given body; `auth` runs
\* (admin: the route is behind adminAuth).  A request the middleware turns
\* away never reaches the handler, so its body is not recorded.
Arrive(r, kind, u, admin, body) ==
    /\ LET a == Resolve(u)
       IN  reqs' = [reqs EXCEPT ![r] =
                IF a = NoActor
                THEN [IdleReq EXCEPT !.kind = kind, !.pc = "done",
                                     !.status = Unauthorized]
                ELSE IF admin /\ a.role # "admin"
                THEN [IdleReq EXCEPT !.kind = kind, !.actor = a, !.pc = "done",
                                     !.status = NotAuthorized]
                ELSE [body EXCEPT !.kind = kind, !.actor = a, !.pc = "find"]]
    /\ UNCHANGED store

\* ------------------------------------------------------ Blog model, save
\* blog.save() of a loaded document whose scalar paths were assigned:
\* $set of the paths whose value changed
SetBlogPaths(b, old, new) ==
    [b EXCEPT !.title = IF new.title # old.title THEN new.title ELSE @,
              !.description = IF new.description # old.description
                              THEN new.description ELSE @]

\* ------------------------------------------------- POST /blogs (create)
CreateBlogArrive(r) ==
    /\ Free(r)
    /\ \E u \in UserIds, t \in TitleInputs :
        Arrive(r, "createBlog", u, FALSE,
               [IdleReq EXCEPT !.title = t, !.description = "d1"])

CreateBlogSave(r) ==
    /\ reqs[r].kind = "createBlog" /\ reqs[r].pc = "find"
    /\ IF reqs[r].title = "" \/ reqs[r].description = ""
       THEN Respond(r, BadRequest) /\ UNCHANGED store
       ELSE /\ nextBid <= MaxBlogs
            /\ blogs' = (nextBid :> [title |-> reqs[r].title,
                                     description |-> reqs[r].description,
                                     author |-> reqs[r].actor.id,
                                     authorName |-> reqs[r].actor.name,
                                     likes |-> << >>, comments |-> << >>,
                                     v |-> 0]) @@ blogs
            /\ nextBid' = nextBid + 1
            /\ reqs' = [reqs EXCEPT ![r].pc = "done", ![r].status = Created,
                                    ![r].id = nextBid]
            /\ UNCHANGED <<users, nextUid, nextCid, serial>>

\* a slip in the ownership check: the admin's right is forgotten
IsAuthorOnly(actor, blog) == blog.author = actor.id

\* the check both PUT /blogs/:id and DELETE /blogs/:id make
IsAuthorOrAdmin(actor, blog) ==
    ~(blog.author # actor.id /\ actor.role # "admin")

\* ----------------------------------------------------- PUT /blogs/:id
UpdateBlogArrive(r) ==
    /\ Free(r)
    /\ \E u \in UserIds, b \in BlogIds, e \in BlogEdits :
        Arrive(r, "updateBlog", u, FALSE,
               [IdleReq EXCEPT !.id = b, !.title = e.title,
                               !.description = e.description])

\* title || blog.title
OrElse(x, y) == IF x # "" THEN x ELSE y

UpdateBlogFind(r) ==
    /\ reqs[r].kind = "updateBlog" /\ reqs[r].pc = "find"
    /\ IF reqs[r].id \notin DOMAIN blogs
       THEN Respond(r, NotFound)
       ELSE IF ~IsAuthorOrAdmin(reqs[r].actor, blogs[reqs[r].id])
       THEN Respond(r, NotAuthorized)
       ELSE reqs' = [reqs EXCEPT ![r].pc = "save", ![r].blog = blogs[reqs[r].id]]
    /\ UNCHANGED store

UpdateBlogSave(r) ==
    /\ reqs[r].kind = "updateBlog" /\ reqs[r].pc = "save"
    /\ LET old == reqs[r].blog
           new == [old EXCEPT !.title = OrElse(reqs[r].title, old.title),
                              !.description =
                                  OrElse(reqs[r].description, old.description)]
       IN  IF reqs[r].id \notin DOMAIN blogs
           THEN Respond(r, ServerError) /\ UNCHANGED blogs
           ELSE /\ blogs' = [blogs EXCEPT ![reqs[r].id] = SetBlogPaths(@, old, new)]
                /\ Respond(r, Ok)
    /\ UNCHANGED <<users, nextUid, nextBid, nextCid, serial>>

\* -------------------------------------------------- DELETE /blogs/:id
DeleteBlogArrive(r) ==
    /\ Free(r)
    /\ \E u \in UserIds, b \in BlogIds :
        Arrive(r, "deleteBlog", u, FALSE, [IdleReq EXCEPT !.id = b])

DeleteBlogFind(r) ==
    /\ reqs[r].kind = "deleteBlog" /\ reqs[r].pc = "find"
    /\ IF reqs[r].id \notin DOMAIN blogs
       THEN Respond(r, NotFound)
       ELSE IF ~IsAuthorOrAdmin(reqs[r].actor, blogs[reqs[r].id])
       THEN Respond(r, NotAuthorized)
       ELSE reqs' = [reqs EXCEPT ![r].pc = "deleteOne", ![r].blog = blogs[reqs[r].id]]
    /\ UNCHANGED store

\* Model.deleteOne({_id}): removes the document when it is there
DeleteById(coll, id) == [ k \in DOMAIN coll \ {id} |-> coll[k] ]

DeleteBlogDeleteOne(r) ==
    /\ reqs[r].kind = "deleteBlog" /\ reqs[r].pc = "deleteOne"
    /\ blogs' = DeleteById(blogs, reqs[r].id)
    /\ Respond(r, Ok)
    /\ UNCHANGED <<users, nextUid, nextBid, nextCid, serial>>

\* ------------------------------------------------ POST /blogs/:id/like
\* the virtual likesCount
likesCount(b) == Len(b.likes)

\* a slip in the toggle: the like is added whether or not it is there
AlwaysLike(blog, uid) ==
    [doc |-> [blog EXCEPT !.likes = Append(blog.likes, uid)], op |-> "push"]

\* the in-memory toggle: the document after it, and the array operation the
\* next save will send
ToggleLike(blog, uid) ==
    LET likeIndex == IndexOf(blog.likes, uid)
    IN  IF likeIndex > 0
        THEN [doc |-> [blog EXCEPT !.likes = Splice(blog.likes, likeIndex)],
              op  |-> "splice"]
        ELSE [doc |-> [blog EXCEPT !.likes = Append(blog.likes, uid)],
              op  |-> "push"]

LikeArrive(r) ==
    /\ Free(r)
    /\ \E u \in UserIds, b \in BlogIds :
        Arrive(r, "like", u, FALSE, [IdleReq EXCEPT !.id = b])

LikeFind(r) ==
    /\ reqs[r].kind = "like" /\ reqs[r].pc = "find"
    /\ IF reqs[r].id \notin DOMAIN blogs
       THEN Respond(r, NotFound)
       ELSE reqs' = [reqs EXCEPT ![r].pc = "save", ![r].blog = blogs[reqs[r].id]]
    /\ UNCHANGED store

\* a slip in the save: the whole in-memory document is written back
SaveWholeDocument(b, doc, op, uid) ==
    [ok |-> TRUE, doc |-> [doc EXCEPT !.v = b.v + 1]]

\* blog.save() after the toggle.  A push is sent as $push and lands on the
\* array as stored; a splice is sent as $set of the whole in-memory array
\* under the condition that __v is still the version loaded.
SaveLikes(b, doc, op, uid) ==
    IF op = "push"
    THEN [ok |-> TRUE, doc |-> [b EXCEPT !.likes = Append(b.likes, uid), !.v = b.v + 1]]
    ELSE IF b.v = doc.v
    THEN [ok |-> TRUE, doc |-> [b EXCEPT !.likes = doc.likes, !.v = b.v + 1]]
    ELSE [ok |-> FALSE, doc |-> b]

LikeSave(r) ==
    /\ reqs[r].kind = "like" /\ reqs[r].pc = "save"
    /\ IF reqs[r].id \notin DOMAIN blogs
       THEN Respond(r, ServerError) /\ UNCHANGED blogs
       ELSE LET t == ToggleLike(reqs[r].blog, reqs[r].actor.id)
                s == SaveLikes(blogs[reqs[r].id], t.doc, t.op, reqs[r].actor.id)
            IN  /\ blogs' = [blogs EXCEPT ![reqs[r].id] = s.doc]
                /\ Respond(r, IF s.ok THEN Ok ELSE ServerError)
    /\ UNCHANGED <<users, nextUid, nextBid, nextCid, serial>>

\* --------------------------------------------- POST /blogs/:id/comment
CommentArrive(r) ==
    /\ Free(r)
    /\ \E u \in UserIds, b \in BlogIds, c \in ContentInputs :
        Arrive(r, "comment", u, FALSE, [IdleReq EXCEPT !.id = b, !.content = c])

CommentFind(r) ==
    /\ reqs[r].kind = "comment" /\ reqs[r].pc = "find"
    /\ IF Falsy(reqs[r].content)
       THEN Respond(r, BadRequest)
       ELSE IF reqs[r].id \notin DOMAIN blogs
       THEN Respond(r, NotFound)
       ELSE reqs' = [reqs EXCEPT ![r].pc = "save", ![r].blog = blogs[reqs[r].id]]
    /\ UNCHANGED store

\* the subdocument blog.comments.push() builds; the schema trims content
NewComment(cid, actor, content) ==
    [id |-> cid, user |-> actor.id, content |-> Trim(content.text),
     userName |-> actor.name]

\* commentSchema's validation, run by save(): content and userName required
ValidComment(c) == c.content # << >> /\ c.userName # ""

CommentSave(r) ==
    /\ reqs[r].kind = "comment" /\ reqs[r].pc = "save"
    /\ LET c == NewComment(nextCid, reqs[r].actor, reqs[r].content)
       IN  IF ~ValidComment(c) \/ reqs[r].id \notin DOMAIN blogs
           THEN Respond(r, ServerError) /\ UNCHANGED <<blogs, nextCid>>
           ELSE /\ nextCid <= MaxComments
                /\ blogs' = [blogs EXCEPT ![reqs[r].id].comments = Append(@, c),
                                          ![reqs[r].id].v = @ + 1]
                /\ nextCid' = nextCid + 1
                /\ reqs' = [reqs EXCEPT ![r].pc = "done", ![r].status = Ok,
                                        ![r].cid = nextCid]
    /\ UNCHANGED <<users, nextUid, nextBid, serial>>

\* ------------------------------ DELETE /blogs/:blogId/comment/:commentId
\* blog.comments.id(commentId): the subdocument with that _id, if any
HasComment(blog, cid) == \E i \in 1..Len(blog.comments) : blog.comments[i].id = cid
CommentById(blog, cid) ==
    blog.comments[CHOOSE i \in 1..Len(blog.comments) : blog.comments[i].id = cid]

\* a slip in the comment check: the check is left out
AnyoneMayDelete(actor, comment) == TRUE

IsCommenterOrAdmin(actor, comment) ==
    ~(comment.user # actor.id /\ actor.role # "admin")

DeleteCommentArrive(r) ==
    /\ Free(r)
    /\ \E u \in UserIds, b \in BlogIds, c \in CommentIds :
        Arrive(r, "deleteComment", u, FALSE, [IdleReq EXCEPT !.id = b, !.cid = c])

DeleteCommentFind(r) ==
    /\ reqs[r].kind = "deleteComment" /\ reqs[r].pc = "find"
    /\ IF reqs[r].id \notin DOMAIN blogs
       THEN Respond(r, NotFound)
       ELSE LET blog == blogs[reqs[r].id]
            IN  IF ~HasComment(blog, reqs[r].cid)
                THEN Respond(r, NotFound)
                ELSE IF ~IsCommenterOrAdmin(reqs[r].actor,
                                            CommentById(blog, reqs[r].cid))
                THEN Respond(r, NotAuthorized)
                ELSE reqs' = [reqs EXCEPT ![r].pc = "save", ![r].blog = blog]
    /\ UNCHANGED store

DeleteCommentSave(r) ==
    /\ reqs[r].kind = "deleteComment" /\ reqs[r].pc = "save"
    /\ IF reqs[r].id \notin DOMAIN blogs
       THEN Respond(r, ServerError) /\ UNCHANGED blogs
       ELSE /\ blogs' = [blogs EXCEPT
                           ![reqs[r].id].comments = PullId(@, reqs[r].cid),
                           ![reqs[r].id].v = @ + 1]
            /\ Respond(r, Ok)
    /\ UNCHANGED <<users, nextUid, nextBid, nextCid, serial>>

\* ------------------------------------------------------------ User model
\* the schema's default for role
DefaultRole == "user"

\* the pre-save hook stores a one-way hash of the password
Hash(p) == <<"hash", p>>

\* user.comparePassword(candidate)
ComparePassword(doc, candidate) == doc.password = Hash(candidate)

\* the unique index on email: another document already holds this email
EmailTaken(us, id, email) == \E k \in DOMAIN us \ {id} : us[k].email = email

\* User.findOne({ email }): the id of the document found, 0 for null
FindByEmail(us, email) ==
    IF \E k \in DOMAIN us : us[k].email = email
    THEN CHOOSE k \in DOMAIN us :
            us[k].email = email /\ \A j \in DOMAIN us : us[j].email = email => k <= j
    ELSE 0

\* a slip in the insert: the email index is not consulted
InsertUnchecked(us, id, doc) == [ok |-> TRUE, users |-> (id :> doc) @@ us]

\* save() of a new User document
InsertUser(us, id, doc) ==
    IF EmailTaken(us, id, doc.email)
    THEN [ok |-> FALSE, users |-> us]
    ELSE [ok |-> TRUE, users |-> (id :> doc) @@ us]

\* save() of a loaded User document: $set of the paths whose value changed
SaveUser(us, id, old, new) ==
    IF id \notin DOMAIN us
    THEN [ok |-> FALSE, users |-> us]
    ELSE IF new.email # old.email /\ EmailTaken(us, id, new.email)
    THEN [ok |-> FALSE, users |-> us]
    ELSE [ok |-> TRUE,
          users |-> [us EXCEPT ![id] =
                        [f \in DOMAIN new |->
                            IF new[f] # old[f] THEN new[f] ELSE us[id][f]]]]

\* a request to a route with no auth middleware arrives
Accept(r, kind, body, next, code) ==
    /\ reqs' = [reqs EXCEPT ![r] =
                   [body EXCEPT !.kind = kind, !.pc = next, !.status = code]]
    /\ UNCHANGED store

\* ---------------------------------------------------- POST /auth/signup
\* the document the handler builds: name, email and password of the body,
\* nothing else of it
NewUser(name, email, password) ==
    [name |-> name, email |-> email, password |-> Hash(password),
     role |-> DefaultRole]

Signup(r) ==
    /\ Free(r)
    /\ \E b \in SignupBodies :
        LET body == [IdleReq EXCEPT !.name = "zed", !.email = b.email,
                                    !.password = "pw", !.role = b.role]
        IN  IF FindByEmail(users, b.email) # 0
            THEN Accept(r, "signup", body, "done", BadRequest)
            ELSE Accept(r, "signup", body, "save", 0)

SignupSave(r) ==
    /\ reqs[r].kind = "signup" /\ reqs[r].pc = "save"
    /\ LET s == InsertUser(users, nextUid,
                           NewUser(reqs[r].name, reqs[r].email, reqs[r].password))
       IN  IF ~s.ok
           THEN Respond(r, ServerError) /\ UNCHANGED <<users, nextUid>>
           ELSE /\ nextUid <= MaxUsers
                /\ users' = s.users
                /\ nextUid' = nextUid + 1
                /\ reqs' = [reqs EXCEPT ![r].pc = "done", ![r].status = Created,
                                        ![r].id = nextUid]
    /\ UNCHANGED <<blogs, nextBid, nextCid, serial>>

\* ----------------------------------------------------- POST /auth/login
Login(r) ==
    /\ Free(r)
    /\ \E c \in Credentials :
        LET body == [IdleReq EXCEPT !.email = c.email, !.password = c.password]
            u    == FindByEmail(users, c.email)
        IN  IF u = 0 \/ ~ComparePassword(users[u], c.password)
            THEN Accept(r, "login", body, "done", BadRequest)
            ELSE Accept(r, "login", [body EXCEPT !.id = u], "done", Ok)

\* ----------------------------------------------- POST /auth/admin-login
AdminLogin(r) ==
    /\ Free(r)
    /\ \E c \in Credentials :
        LET body  == [IdleReq EXCEPT !.email = c.email, !.password = c.password]
            admin == FindByEmail(users, ADMIN_EMAIL)
        IN  IF c.email # ADMIN_EMAIL \/ c.password # ADMIN_PASSWORD
            THEN Accept(r, "adminLogin", body, "done", BadRequest)
            ELSE IF admin = 0
            THEN Accept(r, "adminLogin", [body EXCEPT !.op = "create"], "save", 0)
            ELSE IF users[admin].role # "admin"
            THEN Accept(r, "adminLogin",
                        [body EXCEPT !.op = "promote", !.id = admin,
                                     !.user = users[admin]], "save", 0)
            ELSE Accept(r, "adminLogin", [body EXCEPT !.id = admin], "done", Ok)

\* a slip in the bootstrap: the role is left to the schema's default
NewAdminDefaultRole ==
    [name |-> "Admin", email |-> ADMIN_EMAIL, password |-> Hash(ADMIN_PASSWORD),
     role |-> DefaultRole]

\* the document the bootstrap builds
NewAdmin ==
    [name |-> "Admin", email |-> ADMIN_EMAIL, password |-> Hash(ADMIN_PASSWORD),
     role |-> "admin"]

AdminLoginSave(r) ==
    /\ reqs[r].kind = "adminLogin" /\ reqs[r].pc = "save"
    /\ IF reqs[r].op = "create"
       THEN LET s == InsertUser(users, nextUid, NewAdmin)
            IN  IF ~s.ok
                THEN Respond(r, ServerError) /\ UNCHANGED <<users, nextUid>>
                ELSE /\ nextUid <= MaxUsers
                     /\ users' = s.users
                     /\ nextUid' = nextUid + 1
                     /\ reqs' = [reqs EXCEPT ![r].pc = "done", ![r].status = Ok,
                                             ![r].id = nextUid]
       ELSE LET old == reqs[r].user
                s   == SaveUser(users, reqs[r].id, old, [old EXCEPT !.role = "admin"])
            IN  /\ users' = s.users
                /\ Respond(r, IF s.ok THEN Ok ELSE ServerError)
                /\ UNCHANGED nextUid
    /\ UNCHANGED <<blogs, nextBid, nextCid, serial>>

\* -------------------------------------------------------- PUT /auth/me
PutMeArrive(r) ==
    /\ Free(r)
    /\ \E u \in UserIds, e \in ProfileEdits :
        Arrive(r, "putMe", u, FALSE,
               [IdleReq EXCEPT !.name = e.name, !.email = e.email])

\* User.findById(id) and the 404 answer when there is none
FindUser(r, id, next) ==
    IF id \notin DOMAIN users
    THEN Respond(r, NotFound)
    ELSE reqs' = [reqs EXCEPT ![r].pc = next, ![r].user = users[id]]

PutMeFind(r) ==
    /\ reqs[r].kind = "putMe" /\ reqs[r].pc = "find"
    /\ FindUser(r, reqs[r].actor.id, "save")
    /\ UNCHANGED store

\* the assignments PUT /auth/me makes to the loaded document
PutMeAssign(old, name, email) ==
    [old EXCEPT !.name = OrElse(name, old.name), !.email = OrElse(email, old.email)]

PutMeSave(r) ==
    /\ reqs[r].kind = "putMe" /\ reqs[r].pc = "save"
    /\ LET old == reqs[r].user
           s   == SaveUser(users, reqs[r].actor.id, old,
                           PutMeAssign(old, reqs[r].name, reqs[r].email))
       IN  /\ users' = s.users
           /\ Respond(r, IF s.ok THEN Ok ELSE ServerError)
    /\ UNCHANGED <<blogs, nextUid, nextBid, nextCid, serial>>

\* ----------------------------------------------- PUT /auth/me/password
PutPasswordArrive(r) ==
    /\ Free(r)
    /\ \E u \in UserIds, e \in PasswordEdits :
        Arrive(r, "putPassword", u, FALSE,
               [IdleReq EXCEPT !.password = e.password,
                               !.newPassword = e.newPassword])

PutPasswordFind(r) ==
    /\ reqs[r].kind = "putPassword" /\ reqs[r].pc = "find"
    /\ IF reqs[r].password = "" \/ reqs[r].newPassword = ""
       THEN Respond(r, BadRequest)
       ELSE IF reqs[r].actor.id \notin DOMAIN users
       THEN Respond(r, NotFound)
       ELSE IF ~ComparePassword(users[reqs[r].actor.id], reqs[r].password)
       THEN Respond(r, BadRequest)
       ELSE reqs' = [reqs EXCEPT ![r].pc = "save",
                                 ![r].user = users[reqs[r].actor.id]]
    /\ UNCHANGED store

PutPasswordSave(r) ==
    /\ reqs[r].kind = "putPassword" /\ reqs[r].pc = "save"
    /\ LET old == reqs[r].user
           s   == SaveUser(users, reqs[r].actor.id, old,
                           [old EXCEPT !.password = Hash(reqs[r].newPassword)])
       IN  /\ users' = s.users
           /\ Respond(r, IF s.ok THEN Ok ELSE ServerError)
    /\ UNCHANGED <<blogs, nextUid, nextBid, nextCid, serial>>

\* ------------------------------------------------ PUT /admin/users/:id
EditUserArrive(r) ==
    /\ Free(r)
    /\ \E u \in UserIds, t \in UserIds, e \in UserEdits :
        Arrive(r, "editUser", u, TRUE,
               [IdleReq EXCEPT !.id = t, !.name = e.name, !.email = e.email,
                               !.role = e.role])

EditUserFind(r) ==
    /\ reqs[r].kind = "editUser" /\ reqs[r].pc = "find"
    /\ FindUser(r, reqs[r].id, "save")
    /\ UNCHANGED store

\* a slip in the role filter: any role the body carries is assigned
EditUserAssignAnyRole(old, name, email, role) ==
    [old EXCEPT !.name  = OrElse(name, old.name),
                !.email = OrElse(email, old.email),
                !.role  = OrElse(role, old.role)]

\* the assignments PUT /admin/users/:id makes to the loaded document
EditUserAssign(old, name, email, role) ==
    [old EXCEPT !.name  = OrElse(name, old.name),
                !.email = OrElse(email, old.email),
                !.role  = IF role # "" /\ role \in {"user", "admin"}
                          THEN role ELSE old.role]

EditUserSave(r) ==
    /\ reqs[r].kind = "editUser" /\ reqs[r].pc = "save"
    /\ LET old == reqs[r].user
           s   == SaveUser(users, reqs[r].id, old,
                           EditUserAssign(old, reqs[r].name, reqs[r].email,
                                          reqs[r].role))
       IN  /\ users' = s.users
           /\ Respond(r, IF s.ok THEN Ok ELSE ServerError)
    /\ UNCHANGED <<blogs, nextUid, nextBid, nextCid, serial>>

\* --------------------------------------------- DELETE /admin/users/:id
DeleteUserArrive(r) ==
    /\ Free(r)
    /\ \E u \in UserIds, t \in UserIds :
        Arrive(r, "deleteUser", u, TRUE, [IdleReq EXCEPT !.id = t])

\* the answer to an attempt to delete an admin
CannotDeleteAdmin == BadRequest

DeleteUserFind(r) ==
    /\ reqs[r].kind = "deleteUser" /\ reqs[r].pc = "find"
    /\ IF reqs[r].id \notin DOMAIN users
       THEN Respond(r, NotFound)
       ELSE IF users[reqs[r].id].role = "admin"
       THEN Respond(r, CannotDeleteAdmin)
       ELSE reqs' = [reqs EXCEPT ![r].pc = "deleteMany", ![r].user = users[reqs[r].id]]
    /\ UNCHANGED store

\* a slip in the cascade: the author's blogs are left in place
DeleteNoBlogs(bs, author) == bs

\* Blog.deleteMany({ author })
DeleteByAuthor(bs, author) ==
    [ k \in { b \in DOMAIN bs : bs[b].author # author } |-> bs[k] ]

DeleteUserDeleteMany(r) ==
    /\ reqs[r].kind = "deleteUser" /\ reqs[r].pc = "deleteMany"
    /\ blogs' = DeleteByAuthor(blogs, reqs[r].id)
    /\ reqs' = [reqs EXCEPT ![r].pc = "deleteOne"]
    /\ UNCHANGED <<users, nextUid, nextBid, nextCid, serial>>

DeleteUserDeleteOne(r) ==
    /\ reqs[r].kind = "deleteUser" /\ reqs[r].pc = "deleteOne"
    /\ users' = DeleteById(users, reqs[r].id)
    /\ Respond(r, Ok)
    /\ UNCHANGED <<blogs, nextUid, nextBid, nextCid, serial>>

\* ------------------------------------------------- GET /admin/stats
\* the $group / $sum of the comment arrays' sizes over the blogs in S
RECURSIVE CommentsIn(_, _)
CommentsIn(bs, S) ==
    IF S = {} THEN 0
    ELSE LET b == CHOOSE x \in S : TRUE
         IN  Len(bs[b].comments) + CommentsIn(bs, S \ {b})

totalComments(bs) == CommentsIn(bs, DOMAIN bs)

\* --------------------------------------------------------- the system
Ann == [name |-> "ann", email |-> "ann@x", password |-> Hash("pw"), role |-> "user"]
Bob == [name |-> "bob", email |-> "bob@x", password |-> Hash("pw"), role |-> "user"]

\* A database the handlers have built: ann (1) and bob (2) signed up, the
\* admin (3) was bootstrapped or not yet, ann wrote blog 1, bob commented on
\* it and may have liked it.
InitStore ==
    /\ \/ users = (1 :> Ann) @@ (2 :> Bob) /\ nextUid = 3
       \/ users = (1 :> Ann) @@ (2 :> Bob) @@ (3 :> NewAdmin) /\ nextUid = 4
    /\ \E l \in { << >>, <<2>> } :
         blogs = (1 :> [title |-> "t1", description |-> "d1", author |-> 1,
                        authorName |-> "ann", likes |-> l,
                        comments |-> << [id |-> 1, user |-> 2,
                                         content |-> <<"h">>,
                                         userName |-> "bob"] >>,
                        v |-> Len(l) + 1])
    /\ nextBid = 2
    /\ nextCid = 2
    /\ reqs = [r \in Slots |-> IdleReq]

\* requests overlap as they come
Init == InitStore /\ serial = FALSE

\* one request at a time
InitSerial == InitStore /\ serial = TRUE

Next ==
    \E r \in Slots :
        \/ CreateBlogArrive(r)    \/ CreateBlogSave(r)
        \/ UpdateBlogArrive(r)    \/ UpdateBlogFind(r)    \/ UpdateBlogSave(r)
        \/ DeleteBlogArrive(r)    \/ DeleteBlogFind(r)    \/ DeleteBlogDeleteOne(r)
        \/ LikeArrive(r)          \/ LikeFind(r)          \/ LikeSave(r)
        \/ CommentArrive(r)       \/ CommentFind(r)       \/ CommentSave(r)
        \/ DeleteCommentArrive(r) \/ DeleteCommentFind(r) \/ DeleteCommentSave(r)
        \/ Signup(r)              \/ SignupSave(r)
        \/ Login(r)
        \/ AdminLogin(r)          \/ AdminLoginSave(r)
        \/ PutMeArrive(r)         \/ PutMeFind(r)         \/ PutMeSave(r)
        \/ PutPasswordArrive(r)   \/ PutPasswordFind(r)   \/ PutPasswordSave(r)
        \/ EditUserArrive(r)      \/ EditUserFind(r)      \/ EditUserSave(r)
        \/ DeleteUserArrive(r)    \/ DeleteUserFind(r)
        \/ DeleteUserDeleteMany(r) \/ DeleteUserDeleteOne(r)

Spec == Init /\ [][Next]_vars

\* the handlers run one after the other: what each does on its own
SpecSerial == InitSerial /\ [][Next]_vars

\* =================================================================== claims
\* request r takes a step
Stepped(r) == reqs'[r] # reqs[r]

\* the blog a request is about is in the store
BlogThere(r) == reqs[r].id \in DOMAIN blogs

\* ---------------------------------------------------------------------- C1
\* C1: PUT /blogs/:id and DELETE /blogs/:id on an existing blog go on to
\* mutate it exactly when the actor is the blog's author or an admin; any
\* other actor is answered 403 and the store is left as it was.  A request
\* that reaches its save / deleteOne is an authorised one, the save writes
\* the title and description it was given, the deleteOne removes the blog.
C1Allowed(r) ==
    reqs[r].actor.id = blogs[reqs[r].id].author \/ reqs[r].actor.role = "admin"

C1Step ==
    \A r \in Slots :
        reqs[r].kind \in {"updateBlog", "deleteBlog"} =>
            /\ (reqs[r].pc = "find" /\ Stepped(r) /\ BlogThere(r)) =>
                  IF C1Allowed(r)
                  THEN reqs'[r].pc \in {"save", "deleteOne"} /\ blogs' = blogs
                  ELSE /\ reqs'[r].pc = "done"
                       /\ reqs'[r].status = 403
                       /\ blogs' = blogs
            /\ (reqs[r].pc \in {"save", "deleteOne"} /\ BlogThere(r)) => C1Allowed(r)
            /\ (reqs[r].pc = "save" /\ Stepped(r) /\ BlogThere(r)) =>
                  /\ reqs'[r].status = 200
                  /\ reqs[r].title \notin {"", reqs[r].blog.title} =>
                        blogs'[reqs[r].id].title = reqs[r].title
                  /\ reqs[r].description \notin {"", reqs[r].blog.description} =>
                        blogs'[reqs[r].id].description = reqs[r].description
            /\ (reqs[r].pc = "deleteOne" /\ Stepped(r)) =>
                  reqs[r].id \notin DOMAIN blogs' /\ reqs'[r].status = 200

C1_BlogMutationIffAuthorOrAdmin == [][C1Step]_vars

\* a stranger's update was refused, the blog is as it was, and an admin who
\* is not the author has deleted another request's target
C1_Witness ==
    \E r, q \in Slots :
        /\ reqs[r].kind = "updateBlog" /\ reqs[r].status = 403
        /\ reqs[r].actor.role = "user"
        /\ reqs[q].kind = "deleteBlog" /\ reqs[q].status = 200
        /\ reqs[q].actor.role = "admin"
        /\ reqs[q].blog.author # reqs[q].actor.id
        /\ reqs[q].id \notin DOMAIN blogs

\* ---------------------------------------------------------------------- C2
\* C2: DELETE /blogs/:blogId/comment/:commentId on an existing comment goes
\* on to remove it only when the actor wrote the comment or is an admin;
\* any other actor, the blog's author included, is answered 403 and the
\* blog's comments are left as they were.  The save removes that comment and
\* no other.
C2Allowed(r) ==
    LET c == CommentById(blogs[reqs[r].id], reqs[r].cid)
    IN  c.user = reqs[r].actor.id \/ reqs[r].actor.role = "admin"

C2Step ==
    \A r \in Slots :
        reqs[r].kind = "deleteComment" =>
            /\ (reqs[r].pc = "find" /\ Stepped(r) /\ BlogThere(r)
                  /\ HasComment(blogs[reqs[r].id], reqs[r].cid)) =>
                  IF C2Allowed(r)
                  THEN reqs'[r].pc = "save" /\ blogs' = blogs
                  ELSE /\ reqs'[r].pc = "done"
                       /\ reqs'[r].status = 403
                       /\ blogs' = blogs
            /\ (reqs[r].pc = "save" /\ BlogThere(r)
                  /\ HasComment(blogs[reqs[r].id], reqs[r].cid)) => C2Allowed(r)
            /\ (reqs[r].pc = "save" /\ Stepped(r) /\ BlogThere(r)) =>
                  LET old == blogs[reqs[r].id].comments
                      new == blogs'[reqs[r].id].comments
                  IN  /\ ~HasComment(blogs'[reqs[r].id], reqs[r].cid)
                      /\ Range(new) = { c \in Range(old) : c.id # reqs[r].cid }
                      /\ Len(new) >= Len(old) - 1

C2_CommentDeleteOnlyByCommenterOrAdmin == [][C2Step]_vars

\* the blog's author, not an admin, was refused the removal of another
\* user's comment, which is still in the blog
C2_Witness ==
    \E r \in Slots :
        /\ reqs[r].kind = "deleteComment" /\ reqs[r].status = 403
        /\ reqs[r].id \in DOMAIN blogs
        /\ blogs[reqs[r].id].author = reqs[r].actor.id
        /\ HasComment(blogs[reqs[r].id], reqs[r].cid)
        /\ CommentById(blogs[reqs[r].id], reqs[r].cid).user # reqs[r].actor.id

\* ---------------------------------------------------------------------- C3
\* C3: DELETE /admin/users/:id on a target whose role is admin is answered
\* 403 and changes nothing in the store.
C3Step ==
    \A r \in Slots :
        (/\ reqs[r].kind = "deleteUser" /\ reqs[r].pc = "find" /\ Stepped(r)
         /\ reqs[r].id \in DOMAIN users
         /\ users[reqs[r].id].role = "admin") =>
            /\ reqs'[r].pc = "done"
            /\ reqs'[r].status = 403
            /\ users' = users /\ blogs' = blogs

C3_DeleteAdminIsForbidden == [][C3Step]_vars

\* ---------------------------------------------------------------------- C4
\* C4: DELETE /admin/users/:id on a user who is not an admin, handled on its
\* own: the deleteMany removes every blog the target wrote and no other
\* blog, so the total comment count drops by exactly the comments those
\* blogs held, whoever wrote them; the deleteOne removes the target's record
\* and nothing else; once it is answered 200 the target has no record and no
\* blog.
BlogsBy(bs, t) == { b \in DOMAIN bs : bs[b].author = t }

C4Step ==
    \A r \in Slots :
        (reqs[r].kind = "deleteUser" /\ Stepped(r)) =>
            LET t == reqs[r].id
            IN  /\ (reqs[r].pc = "find" /\ t \in DOMAIN users
                      /\ users[t].role # "admin") =>
                      /\ reqs'[r].pc = "deleteMany"
                      /\ users' = users /\ blogs' = blogs
                /\ reqs[r].pc = "deleteMany" =>
                      /\ BlogsBy(blogs', t) = {}
                      /\ \A b \in DOMAIN blogs \ BlogsBy(blogs, t) :
                            b \in DOMAIN blogs' /\ blogs'[b] = blogs[b]
                      /\ totalComments(blogs') =
                            totalComments(blogs) - CommentsIn(blogs, BlogsBy(blogs, t))
                      /\ users' = users
                /\ reqs[r].pc = "deleteOne" =>
                      /\ DOMAIN users' = DOMAIN users \ {t}
                      /\ \A u \in DOMAIN users' : users'[u] = users[u]
                      /\ blogs' = blogs
                      /\ reqs'[r].status = 200

C4Done ==
    \A r \in Slots :
        (reqs[r].kind = "deleteUser" /\ reqs[r].pc \in {"deleteOne", "done"}
           /\ reqs[r].status \in {0, 200} /\ reqs[r].actor.role = "admin"
           /\ reqs[r].user # NoUserDoc) =>
            /\ BlogsBy(blogs, reqs[r].id) = {}
            /\ reqs[r].pc = "done" => reqs[r].id \notin DOMAIN users

C4_DeleteUserCascades == []C4Done /\ [][C4Step]_vars

\* ann was deleted after bob had written a blog of his own: ann's blog and
\* bob's comment in it are gone, bob's blog is there
C4_Witness ==
    \E r \in Slots :
        /\ reqs[r].kind = "deleteUser" /\ reqs[r].status = 200
        /\ reqs[r].user.name = "ann"
        /\ reqs[r].id \notin DOMAIN users
        /\ 1 \notin DOMAIN blogs
        /\ \E b \in DOMAIN blogs : blogs[b].author # reqs[r].id
        /\ totalComments(blogs) = 0

\* ---------------------------------------------------------------------- C5
\* C5: two consecutive POST /blogs/:id/like of one user on one blog, nothing
\* else touching the blog in between: the first flips the user's membership
\* in likes, and after the second the blog's likes are the same set, and
\* likesCount the same number, as before the first.
C5Pair(r, q) ==
    /\ q = r + 1
    /\ reqs[r].kind = "like" /\ reqs[q].kind = "like"
    /\ reqs[r].status = 200 /\ reqs[q].status = 200
    /\ reqs[r].actor.id = reqs[q].actor.id
    /\ reqs[r].id = reqs[q].id
    /\ reqs[r].id \in DOMAIN blogs
    /\ \A p \in Slots : p > q => reqs[p].pc = "idle"

C5_DoubleToggleRestoresLikes ==
    \A r, q \in Slots :
        C5Pair(r, q) =>
            LET u      == reqs[r].actor.id
                before == reqs[r].blog
                mid    == reqs[q].blog
                after  == blogs[reqs[r].id]
            IN  /\ (u \in Range(mid.likes)) # (u \in Range(before.likes))
                /\ (u \in Range(after.likes)) = (u \in Range(before.likes))
                /\ Range(after.likes) = Range(before.likes)
                /\ likesCount(after) = likesCount(before)

\* bob, who liked blog 1, has toggled twice and likes it again
C5_Witness ==
    \E r, q \in Slots :
        /\ C5Pair(r, q)
        /\ reqs[r].actor.id \in Range(reqs[r].blog.likes)
        /\ reqs[r].actor.id \notin Range(reqs[q].blog.likes)
        /\ reqs[r].actor.id \in Range(blogs[reqs[r].id].likes)

\* ---------------------------------------------------------------------- C6
\* a like toggle r and a comment q of two users on one blog, both answered,
\* the comment's content valid, the blog still there, no other request
C6Pair(r, q) ==
    /\ reqs[r].kind = "like" /\ reqs[q].kind = "comment"
    /\ reqs[r].pc = "done" /\ reqs[q].pc = "done"
    /\ reqs[r].actor # NoActor /\ reqs[q].actor # NoActor
    /\ reqs[r].actor.id # reqs[q].actor.id
    /\ reqs[r].id = reqs[q].id
    /\ reqs[r].id \in DOMAIN blogs
    /\ ~Falsy(reqs[q].content) /\ Trim(reqs[q].content.text) # << >>
    /\ \A p \in Slots \ {r, q} : reqs[p].pc = "idle"

\* the two read the blog before either saved
C6Overlap(r, q) == reqs[r].blog.v = reqs[q].blog.v

C7Blank(c) == Falsy(c) \/ Trim(c.text) = << >>

C7Step ==
    \A r \in Slots :
        (/\ reqs[r].kind = "comment" /\ Stepped(r) /\ BlogThere(r)
         /\ reqs'[r].pc = "done") =>
            IF C7Blank(reqs[r].content)
            THEN reqs'[r].status = 400 /\ blogs' = blogs
            ELSE /\ reqs'[r].status = 200
                 /\ LET old == blogs[reqs[r].id].comments
                        new == blogs'[reqs[r].id].comments
                    IN  /\ Len(new) = Len(old) + 1
                        /\ SubSeq(new, 1, Len(old)) = old
                        /\ new[Len(new)].user = reqs[r].actor.id
                        /\ new[Len(new)].userName = reqs[r].actor.name

C7_BlankCommentIsValidationError == [][C7Step]_vars

\* ---------------------------------------------------------------------- C8
\* C8: POST /auth/admin-login.  With credentials other than the configured
\* ones it is answered 400 and changes nothing.  With the configured ones and
\* no account under the admin email, its save adds one account, with role
\* admin; with an account there, no step of it adds or removes an account,
\* and when it is answered 200 that account's role is admin.  At no time are
\* there two accounts under the admin email.
AdminAccounts(us) == { u \in DOMAIN us : us[u].email = ADMIN_EMAIL }

C8Step ==
    \A r \in Slots :
        (reqs'[r].kind = "adminLogin" /\ Stepped(r)) =>
            LET pre  == AdminAccounts(users)
                post == AdminAccounts(users')
            IN  /\ (reqs'[r].email # ADMIN_EMAIL
                      \/ reqs'[r].password # ADMIN_PASSWORD) =>
                      /\ reqs'[r].pc = "done" /\ reqs'[r].status = 400
                      /\ users' = users /\ blogs' = blogs
                /\ (pre = {} /\ reqs[r].pc = "save") =>
                      /\ reqs'[r].status = 200
                      /\ Cardinality(post) = 1
                      /\ DOMAIN users' = DOMAIN users \cup post
                      /\ \A u \in post : users'[u].role = "admin"
                      /\ \A u \in DOMAIN users : users'[u] = users[u]
                /\ pre # {} =>
                      /\ DOMAIN users' = DOMAIN users
                      /\ post = pre
                      /\ reqs'[r].status = 200 =>
                            \A u \in post : users'[u].role = "admin"
                /\ blogs' = blogs

C8OneAdminAccount == Cardinality(AdminAccounts(users)) <= 1

C8_AdminLoginBootstrapsOnce == []C8OneAdminAccount /\ [][C8Step]_vars

\* two overlapping admin-logins both found no account; one created it, the
\* other's save was refused, and there is one admin account
C8_Witness ==
    \E r, q \in Slots :
        /\ reqs[r].kind = "adminLogin" /\ reqs[q].kind = "adminLogin"
        /\ reqs[r].op = "create" /\ reqs[q].op = "create"
        /\ reqs[r].status = 200 /\ reqs[q].status = 500
        /\ Cardinality(AdminAccounts(users)) = 1
        /\ \A u \in AdminAccounts(users) : users[u].role = "admin"

\* ---------------------------------------------------------------------- C9
\* C9: every user's role is user or admin.  A role becomes admin only in the
\* save of PUT /admin/users/:id sent by an admin with role admin in the body,
\* or in the save of an admin-login.  Signup creates role user whatever role
\* the body names; PUT /auth/me changes no role; PUT /admin/users/:id with a
\* role outside {user, admin} changes no role and, when its save succeeds,
\* has written the name and the email it was given.
C9Roles == \A u \in DOMAIN users : users[u].role \in {"user", "admin"}

C9BecomesAdmin(u) ==
    /\ u \in DOMAIN users' /\ users'[u].role = "admin"
    /\ u \in DOMAIN users => users[u].role # "admin"

C9Step ==
    /\ \A u \in UserIds :
          C9BecomesAdmin(u) =>
              \E r \in Slots :
                  /\ Stepped(r) /\ reqs[r].pc = "save"
                  /\ \/ /\ reqs[r].kind = "editUser"
                        /\ reqs[r].role = "admin"
                        /\ reqs[r].actor.role = "admin"
                        /\ reqs[r].id = u
                     \/ reqs[r].kind = "adminLogin"
    /\ \A r \in Slots :
          /\ (reqs[r].kind = "signup" /\ Stepped(r) /\ reqs'[r].status = 201) =>
                /\ reqs'[r].id \in DOMAIN users' \ DOMAIN users
                /\ users'[reqs'[r].id].role = "user"
          /\ (reqs'[r].kind = "putMe" /\ Stepped(r)) =>
                /\ DOMAIN users' = DOMAIN users
                /\ \A u \in DOMAIN users : users'[u].role = users[u].role
          /\ (reqs[r].kind = "editUser" /\ Stepped(r) /\ reqs[r].pc = "save"
                /\ reqs[r].role \notin {"user", "admin"}) =>
                /\ DOMAIN users' = DOMAIN users
                /\ \A u \in DOMAIN users : users'[u].role = users[u].role
                /\ reqs'[r].status = 200 =>
                      /\ reqs[r].name \notin {"", reqs[r].user.name} =>
                            users'[reqs[r].id].name = reqs[r].name
                      /\ reqs[r].email \notin {"", reqs[r].user.email} =>
                            users'[reqs[r].id].email = reqs[r].email

C9_RolesOnlyByAdminOrBootstrap == []C9Roles /\ [][C9Step]_vars

\* an admin's edit with role "root" went through: name and email are
\* written, the role is still user; and a PUT /auth/me has been answered 200
C9_Witness ==
    \E r, q \in Slots :
        /\ reqs[r].kind = "editUser" /\ reqs[r].status = 200
        /\ reqs[r].role = "root"
        /\ reqs[r].id \in DOMAIN users
        /\ users[reqs[r].id].name = "zed"
        /\ users[reqs[r].id].email = "new@x"
        /\ users[reqs[r].id].role = "user"
        /\ reqs[q].kind = "putMe" /\ reqs[q].status = 200

\* --------------------------------------------------------------------- C10
\* C10: no blog in the store has an author without a user record, whatever
\* the interleaving of DELETE /admin/users/:id with other requests.
C10_NoOrphanedAuthor ==
    \A b \in DOMAIN blogs : blogs[b].author \in DOMAIN users

\* --------------------------------------------------------------------- C11
\* C11: in every reachable state the likes of every blog hold each user id at
\* most once, so likesCount is the number of distinct users who like the
\* blog, also when two toggles of one user on one blog overlap.
C11_LikesHaveNoDuplicates ==
    \A b \in DOMAIN blogs :
        /\ \A i, j \in 1..Len(blogs[b].likes) :
              blogs[b].likes[i] = blogs[b].likes[j] => i = j
        /\ likesCount(blogs[b]) = Cardinality(Range(blogs[b].likes))

\* --------------------------------------------------------------------- C12
\* no two user records hold the same email
C12Unique ==
    \A u, w \in DOMAIN users : users[u].email = users[w].email => u = w

\* a signup that finds its email held by a user record answers 400 and
\* creates no record
C12LookupStep ==
    \A r \in Slots :
        (reqs'[r].kind = "signup" /\ reqs[r].pc = "idle" /\ Stepped(r)
           /\ FindByEmail(users, reqs'[r].email) # 0) =>
            /\ reqs'[r].pc = "done" /\ reqs'[r].status = 400
            /\ users' = users /\ nextUid' = nextUid

\* a signup whose email was taken between its lookup and its save creates
\* no record either; the store's refusal is answered 500
C12LateStep ==
    \A r \in Slots :
        (reqs'[r].kind = "signup" /\ reqs[r].pc = "save" /\ Stepped(r)
           /\ FindByEmail(users, reqs'[r].email) # 0) =>
            /\ reqs'[r].pc = "done" /\ reqs'[r].status = 500
            /\ users' = users /\ nextUid' = nextUid

====
